---- MODULE Spec2Model ----
(***************************************************************************)
(* qexpr: typed query expressions and their structural validator.          *)
(*                                                                         *)
(* The data model (Term, FieldName, Phrase, Near, QExpr) is modelled as    *)
(* records; a String is a sequence of one-character strings.  validate     *)
(* is modelled as the recursion it is: a call stack of frames, one step    *)
(* per match arm entered and one per return into a waiting arm.            *)
(***************************************************************************)
EXTENDS Integers, Sequences, FiniteSets, TLC

VARIABLES expr, stack, ret, visited, rets, blanks

vars == <<expr, stack, ret, visited, rets, blanks>>

(***************************************************************************)
(* Bounds of the model.                                                    *)
(***************************************************************************)
MaxNodes == 4
MaxLen == 3
MaxTermLen == 1
MaxTerms == 3
MaxWindow == 1

(***************************************************************************)
(* Strings.                                                                *)
(***************************************************************************)
WhiteSpace == {" ", "\t"}

Chars == WhiteSpace \cup {"a"}

is_whitespace(c) == c \in WhiteSpace

RECURSIVE trim_start(_)
trim_start(s) ==
    IF s # <<>> /\ is_whitespace(Head(s)) THEN trim_start(Tail(s)) ELSE s

RECURSIVE trim_end(_)
trim_end(s) ==
    IF s # <<>> /\ is_whitespace(s[Len(s)])
    THEN trim_end(SubSeq(s, 1, Len(s) - 1))
    ELSE s

trim(s) == trim_end(trim_start(s))

is_empty(s) == Len(s) = 0

(***************************************************************************)
(* Term, FieldName, Phrase, Near.                                          *)
(***************************************************************************)
Term_new(s) == s

\* Mutant: the text is not trimmed before the emptiness test.
Term_is_blank_Untrimmed(t) == is_empty(t)

Term_is_blank(t) == is_empty(trim(t))

FieldName_new(s) == s

FieldName_is_blank(f) == is_empty(trim(f))

Phrase_new(terms) == [terms |-> terms]

\* Mutant: one blank term is enough to make the phrase blank.
Phrase_is_blank_Any(p) ==
    is_empty(p.terms) \/ \E i \in 1..Len(p.terms) : Term_is_blank(p.terms[i])

Phrase_is_blank(p) ==
    is_empty(p.terms) \/ \A i \in 1..Len(p.terms) : Term_is_blank(p.terms[i])

Near_new(terms, window, ordered) ==
    [terms |-> terms, window |-> window, ordered |-> ordered]

\* Mutant: the window is not looked at.
Near_is_blank_NoWindow(n) ==
    \/ Len(n.terms) < 2
    \/ \A i \in 1..Len(n.terms) : Term_is_blank(n.terms[i])

Near_is_blank(n) ==
    \/ Len(n.terms) < 2
    \/ \A i \in 1..Len(n.terms) : Term_is_blank(n.terms[i])
    \/ n.window = 0

(***************************************************************************)
(* QExpr and ValidateError.                                                *)
(***************************************************************************)
QTerm(t) == [tag |-> "Term", t |-> t]

QPhrase(p) == [tag |-> "Phrase", p |-> p]

QNear(n) == [tag |-> "Near", n |-> n]

QAnd(xs) == [tag |-> "And", xs |-> xs]

QOr(xs) == [tag |-> "Or", xs |-> xs]

QNot(x) == [tag |-> "Not", x |-> x]

QField(name, inner) == [tag |-> "Field", name |-> name, inner |-> inner]

ValidateError ==
    {"BlankTerm", "BlankPhrase", "BlankNear", "EmptyJunction", "BlankFieldName"}

Ok == <<"Ok">>

Err(e) == <<"Err", e>>

None == <<>>

is_err(r) == r # None /\ r[1] = "Err"

(***************************************************************************)
(* Tree navigation: the owned children of a node, and the node a path of   *)
(* child indices leads to.                                                 *)
(***************************************************************************)
Children(e) ==
    CASE e.tag \in {"And", "Or"} -> e.xs
      [] e.tag = "Not" -> <<e.x>>
      [] e.tag = "Field" -> <<e.inner>>
      [] OTHER -> <<>>

RECURSIVE NodeAt(_, _)
NodeAt(e, p) == IF p = <<>> THEN e ELSE NodeAt(Children(e)[Head(p)], Tail(p))

(***************************************************************************)
(* Inputs.                                                                 *)
(***************************************************************************)
SeqsUpTo(S, n) == UNION {[1..k -> S] : k \in 0..n}

Strings == SeqsUpTo(Chars, MaxLen)

TermTexts == SeqsUpTo(Chars, MaxTermLen)

IsLeafInput(e) ==
    \/ \E s \in Strings : e = QTerm(Term_new(s))
    \/ \E k \in 0..MaxTerms : \E ts \in [1..k -> TermTexts] :
          e = QPhrase(Phrase_new(ts))
    \/ \E k \in 0..MaxTerms : \E ts \in [1..k -> TermTexts] :
          \E w \in 0..MaxWindow, o \in BOOLEAN : e = QNear(Near_new(ts, w, o))
    \/ \E s \in Strings, t \in {<<>>, <<"a">>} :
          e = QField(FieldName_new(s), QTerm(Term_new(t)))

TreeLeaves ==
    {QTerm(Term_new(<<" ">>)), QTerm(Term_new(<<"a">>)),
     QPhrase(Phrase_new(<<>>)), QPhrase(Phrase_new(<< <<" ">>, <<"a">> >>)),
     QNear(Near_new(<< <<"a">>, <<" ">> >>, 1, TRUE)),
     QNear(Near_new(<< <<"a">>, <<"a">> >>, 0, FALSE))}

TreeFieldNames == {FieldName_new(<<>>), FieldName_new(<<"a">>)}

\* Trees by node count: trees[n] holds the trees of n nodes, forests[m + 1]
\* the child sequences of m nodes in all.  TreeTable(n) holds the trees of up
\* to n nodes and the child sequences of up to n - 1 nodes.
RECURSIVE TreeTable(_)
TreeTable(n) ==
    IF n = 0 THEN [trees |-> <<>>, forests |-> <<>>]
    ELSE LET prev == TreeTable(n - 1)
             below == IF n = 1 THEN {} ELSE prev.trees[n - 1]
             Fn == IF n = 1 THEN {<<>>}
                   ELSE UNION {{<<t>> \o f : t \in prev.trees[k],
                                             f \in prev.forests[n - k]} :
                                 k \in 1..(n - 1)}
             Tn == (IF n = 1 THEN TreeLeaves ELSE {})
                   \cup {QAnd(xs) : xs \in Fn}
                   \cup {QOr(xs) : xs \in Fn}
                   \cup {QNot(x) : x \in below}
                   \cup {QField(f, x) : f \in TreeFieldNames, x \in below}
         IN  [trees |-> Append(prev.trees, Tn),
              forests |-> Append(prev.forests, Fn)]

\* e is a tree of n nodes, built from the smaller trees of tab.
IsTreeOfSize(e, n, tab) ==
    LET below == IF n = 1 THEN {} ELSE tab.trees[n - 1]
    IN  \/ n = 1 /\ e \in TreeLeaves
        \/ n = 1 /\ e \in {QAnd(<<>>), QOr(<<>>)}
        \/ \E k \in 1..(n - 1) : \E t \in tab.trees[k], f \in tab.forests[n - k] :
              e \in {QAnd(<<t>> \o f), QOr(<<t>> \o f)}
        \/ \E x \in below : e = QNot(x)
        \/ \E f \in TreeFieldNames, x \in below : e = QField(f, x)

IsTreeInput(e) ==
    LET tab == TreeTable(MaxNodes - 1)
    IN  \E n \in 1..MaxNodes : IsTreeOfSize(e, n, tab)

(***************************************************************************)
(* validate, as a call stack.  A frame is [path, i]: the node the call is  *)
(* on, and the child it waits for (0: the arm has not been entered).  ret  *)
(* is the value the call that just returned handed to its caller.          *)
(***************************************************************************)
Top == stack[Len(stack)]

Cur == NodeAt(expr, Top.path)

Entering == stack # <<>> /\ Top.i = 0 /\ ret = None

Resuming == stack # <<>> /\ Top.i > 0 /\ ret # None

Return(v) ==
    /\ stack' = SubSeq(stack, 1, Len(stack) - 1)
    /\ ret' = v
    /\ rets' = (Top.path :> v) @@ rets
    /\ visited' = visited

Call(k) ==
    /\ stack' = Append([stack EXCEPT ![Len(stack)].i = k],
                       [path |-> Append(Top.path, k), i |-> 0])
    /\ ret' = None
    /\ visited' = Append(visited, Append(Top.path, k))
    /\ rets' = rets

IsBlankCall(b) == blanks' = (Top.path :> b) @@ blanks

EnterTerm ==
    /\ Entering
    /\ Cur.tag = "Term"
    /\ IsBlankCall(Term_is_blank(Cur.t))
    /\ IF Term_is_blank(Cur.t) THEN Return(Err("BlankTerm")) ELSE Return(Ok)
    /\ UNCHANGED expr

\* Mutant: a blank phrase is reported with the Term arm's error kind.
EnterPhrase_ReportsBlankTerm ==
    /\ Entering
    /\ Cur.tag = "Phrase"
    /\ IsBlankCall(Phrase_is_blank(Cur.p))
    /\ IF Phrase_is_blank(Cur.p) THEN Return(Err("BlankTerm")) ELSE Return(Ok)
    /\ UNCHANGED expr

EnterPhrase ==
    /\ Entering
    /\ Cur.tag = "Phrase"
    /\ IsBlankCall(Phrase_is_blank(Cur.p))
    /\ IF Phrase_is_blank(Cur.p) THEN Return(Err("BlankPhrase")) ELSE Return(Ok)
    /\ UNCHANGED expr

EnterNear ==
    /\ Entering
    /\ Cur.tag = "Near"
    /\ IsBlankCall(Near_is_blank(Cur.n))
    /\ IF Near_is_blank(Cur.n) THEN Return(Err("BlankNear")) ELSE Return(Ok)
    /\ UNCHANGED expr

\* Mutant: the emptiness check is missing, the loop over no children ends Ok.
EnterJunction_NoEmptyCheck ==
    /\ Entering
    /\ Cur.tag \in {"And", "Or"}
    /\ IF is_empty(Cur.xs) THEN Return(Ok) ELSE Call(1)
    /\ UNCHANGED <<expr, blanks>>

EnterJunction ==
    /\ Entering
    /\ Cur.tag \in {"And", "Or"}
    /\ IF is_empty(Cur.xs) THEN Return(Err("EmptyJunction")) ELSE Call(1)
    /\ UNCHANGED <<expr, blanks>>

\* Mutant: no short circuit; the loop goes on after a failure and the last
\* child's result is returned.
JunctionResume_NoShortCircuit ==
    /\ Resuming
    /\ Cur.tag \in {"And", "Or"}
    /\ IF Top.i < Len(Cur.xs) THEN Call(Top.i + 1) ELSE Return(ret)
    /\ UNCHANGED <<expr, blanks>>

\* Mutant: the loop does not advance past a child that validated Ok.
JunctionResume_NoAdvance ==
    /\ Resuming
    /\ Cur.tag \in {"And", "Or"}
    /\ IF is_err(ret) THEN Return(ret) ELSE Call(Top.i)
    /\ UNCHANGED <<expr, blanks>>

JunctionResume ==
    /\ Resuming
    /\ Cur.tag \in {"And", "Or"}
    /\ IF is_err(ret) THEN Return(ret)
       ELSE IF Top.i < Len(Cur.xs) THEN Call(Top.i + 1)
       ELSE Return(Ok)
    /\ UNCHANGED <<expr, blanks>>

EnterNot ==
    /\ Entering
    /\ Cur.tag = "Not"
    /\ Call(1)
    /\ UNCHANGED <<expr, blanks>>

\* Mutant: the child's failure is swallowed.
NotResume_SwallowsError ==
    /\ Resuming
    /\ Cur.tag = "Not"
    /\ Return(Ok)
    /\ UNCHANGED <<expr, blanks>>

NotResume ==
    /\ Resuming
    /\ Cur.tag = "Not"
    /\ Return(ret)
    /\ UNCHANGED <<expr, blanks>>

\* Mutant: the name is looked at but a blank one is let through.
EnterField_NoNameCheck ==
    /\ Entering
    /\ Cur.tag = "Field"
    /\ IsBlankCall(FieldName_is_blank(Cur.name))
    /\ Call(1)
    /\ UNCHANGED expr

EnterField ==
    /\ Entering
    /\ Cur.tag = "Field"
    /\ IsBlankCall(FieldName_is_blank(Cur.name))
    /\ IF FieldName_is_blank(Cur.name)
       THEN Return(Err("BlankFieldName"))
       ELSE Call(1)
    /\ UNCHANGED expr

FieldResume ==
    /\ Resuming
    /\ Cur.tag = "Field"
    /\ Return(ret)
    /\ UNCHANGED <<expr, blanks>>

InitCall ==
    /\ stack = <<[path |-> <<>>, i |-> 0]>>
    /\ ret = None
    /\ visited = << <<>> >>
    /\ rets = <<>>
    /\ blanks = <<>>

Init == IsTreeInput(expr) /\ InitCall

Next ==
    \/ EnterTerm
    \/ EnterPhrase
    \/ EnterNear
    \/ EnterJunction
    \/ JunctionResume
    \/ EnterNot
    \/ NotResume
    \/ EnterField
    \/ FieldResume

Spec == Init /\ [][Next]_vars

FairSpec == Spec /\ WF_vars(Next)

LeafInit == IsLeafInput(expr) /\ InitCall

LeafNext ==
    \/ EnterTerm
    \/ EnterPhrase
    \/ EnterNear
    \/ EnterField
    \/ FieldResume

LeafSpec == LeafInit /\ [][LeafNext]_vars

Done == stack = <<>>

result == IF Done THEN ret ELSE None

(***************************************************************************)
(* What the claims are stated with: the rules in the words of the          *)
(* specification, independent of the definitions above.                    *)
(***************************************************************************)
AllWhitespace(s) == \A i \in 1..Len(s) : s[i] \in WhiteSpace

AllTermsBlank(ts) == \A i \in 1..Len(ts) : AllWhitespace(ts[i])

UsableTerms(ts) == Cardinality({i \in 1..Len(ts) : ~AllWhitespace(ts[i])})

NearRule(n) == Len(n.terms) < 2 \/ AllTermsBlank(n.terms) \/ n.window = 0

LocalViolation(e) ==
    CASE e.tag = "Term" -> IF AllWhitespace(e.t) THEN "BlankTerm" ELSE "none"
      [] e.tag = "Phrase" ->
           IF Len(e.p.terms) = 0 \/ AllTermsBlank(e.p.terms)
           THEN "BlankPhrase" ELSE "none"
      [] e.tag = "Near" -> IF NearRule(e.n) THEN "BlankNear" ELSE "none"
      [] e.tag \in {"And", "Or"} ->
           IF Len(e.xs) = 0 THEN "EmptyJunction" ELSE "none"
      [] e.tag = "Not" -> "none"
      [] e.tag = "Field" ->
           IF AllWhitespace(e.name) THEN "BlankFieldName" ELSE "none"

RECURSIVE Preorder(_, _)
RECURSIVE PreorderFrom(_, _, _)
Preorder(e, p) == <<p>> \o PreorderFrom(e, p, 1)

PreorderFrom(e, p, k) ==
    IF k > Len(Children(e)) THEN <<>>
    ELSE Preorder(Children(e)[k], Append(p, k)) \o PreorderFrom(e, p, k + 1)

Violating(e) ==
    SelectSeq(Preorder(e, <<>>), LAMBDA q : LocalViolation(NodeAt(e, q)) # "none")

Expected(e) ==
    IF Violating(e) = <<>> THEN Ok
    ELSE Err(LocalViolation(NodeAt(e, Head(Violating(e)))))

Returned(p) == p \in DOMAIN rets

Seen(p) == \E i \in 1..Len(visited) : visited[i] = p

Child(p, k) == Append(p, k)

Outcomes == {Ok} \cup {Err(e) : e \in ValidateError}

\* C1: a junction with no children returns EmptyJunction; otherwise its
\* children are validated from the left up to the first one that fails, whose
\* error it returns without consulting the children to the right, and it
\* returns Ok exactly when every child returned Ok; the rule does not look at
\* whether the junction is And or Or.
C1_JunctionFirstFailure ==
    \A p \in DOMAIN rets :
        LET e == NodeAt(expr, p)
            n == Len(e.xs)
        IN  e.tag \in {"And", "Or"} =>
              /\ rets[p] = Expected(QAnd(e.xs))
              /\ rets[p] = Expected(QOr(e.xs))
              /\ IF n = 0 THEN rets[p] = Err("EmptyJunction")
                 ELSE \E k \in 1..n :
                        /\ \A j \in 1..k : Returned(Child(p, j))
                        /\ \A j \in 1..(k - 1) : rets[Child(p, j)] = Ok
                        /\ \A j \in (k + 1)..n : ~Seen(Child(p, j))
                        /\ IF is_err(rets[Child(p, k)])
                           THEN rets[p] = rets[Child(p, k)]
                           ELSE k = n /\ rets[p] = Ok

C1_Witness ==
    /\ Done
    /\ expr.tag \in {"And", "Or"}
    /\ Len(expr.xs) = 3
    /\ rets[<<1>>] = Ok
    /\ result = Err("BlankTerm")
    /\ ~Seen(<<3>>)

\* C2: every completed call of validate returns Ok iff no node of its tree
\* violates its local rule, and otherwise the error kind of the first
\* violating node in depth-first, left-to-right pre-order.
C2_FirstErrorPreorder ==
    /\ \A p \in DOMAIN rets : rets[p] = Expected(NodeAt(expr, p))
    /\ Done => result = Expected(expr)

C2_Witness ==
    /\ Done
    /\ expr.tag = "And"
    /\ Len(expr.xs) = 2
    /\ expr.xs[1].tag = "Not"
    /\ LocalViolation(expr.xs[1].x) = "BlankPhrase"
    /\ LocalViolation(expr.xs[2]) = "BlankTerm"
    /\ result = Err("BlankPhrase")

\* C3: a Field with a blank name returns BlankFieldName without validating
\* its child, whatever the child is; a Field with a non-blank name returns
\* exactly what the validation of its child returned.
C3_FieldNameBeforeChild ==
    \A p \in DOMAIN rets :
        LET e == NodeAt(expr, p)
        IN  e.tag = "Field" =>
              IF AllWhitespace(e.name)
              THEN rets[p] = Err("BlankFieldName") /\ ~Seen(Child(p, 1))
              ELSE Returned(Child(p, 1)) /\ rets[p] = rets[Child(p, 1)]

C3_Witness ==
    /\ Done
    /\ expr.tag = "Field"
    /\ AllWhitespace(expr.name)
    /\ LocalViolation(expr.inner) = "BlankTerm"
    /\ result = Err("BlankFieldName")

\* C4: a Near with fewer than 2 non-blank terms, or with window 0, is blank
\* and validates to BlankNear.
C4_NearNeedsTwoUsableTerms ==
    (Done /\ expr.tag = "Near"
          /\ (UsableTerms(expr.n.terms) < 2 \/ expr.n.window = 0))
      => blanks[<<>>] = TRUE /\ result = Err("BlankNear")

\* C5: Near.is_blank() is true exactly when there are fewer than 2 terms, or
\* every term is blank, or the window is 0, and the ordered flag does not
\* change it.
C5_NearIsBlank ==
    (Done /\ expr.tag = "Near") =>
        /\ blanks[<<>>] = NearRule(expr.n)
        /\ Near_is_blank([expr.n EXCEPT !.ordered = ~@]) = blanks[<<>>]

C5_Witness ==
    /\ Done
    /\ expr.tag = "Near"
    /\ Len(expr.n.terms) >= 2
    /\ ~AllTermsBlank(expr.n.terms)
    /\ expr.n.window > 0
    /\ blanks[<<>>] = FALSE

\* C6: validate(Phrase(p)) is BlankPhrase exactly when p has no terms or
\* only blank ones; a phrase with one non-blank term is Ok even beside blank
\* terms, and a phrase never yields BlankTerm.
C6_PhraseWholeNode ==
    (Done /\ expr.tag = "Phrase") =>
        /\ result = IF Len(expr.p.terms) = 0 \/ AllTermsBlank(expr.p.terms)
                    THEN Err("BlankPhrase") ELSE Ok
        /\ result # Err("BlankTerm")

C6_Witness ==
    /\ Done
    /\ expr.tag = "Phrase"
    /\ \E i \in 1..Len(expr.p.terms) : AllWhitespace(expr.p.terms[i])
    /\ \E i \in 1..Len(expr.p.terms) : ~AllWhitespace(expr.p.terms[i])
    /\ result = Ok

\* C7: a Not returns exactly what the validation of its child returned, at
\* any depth of a chain of Nots, the top level included.
C7_NotTransparent ==
    \A p \in DOMAIN rets :
        NodeAt(expr, p).tag = "Not" =>
            Returned(Child(p, 1)) /\ rets[p] = rets[Child(p, 1)]

C7_Witness ==
    /\ Done
    /\ expr.tag = "Not"
    /\ expr.x.tag = "Not"
    /\ result = Err("BlankTerm")
    /\ rets[<<1, 1>>] = result

NoRevisit ==
    \A i, j \in 1..Len(visited) : visited[i] = visited[j] => i = j

\* C8: validate terminates on every tree, calls itself on each node at most
\* once, is never stuck before it has returned, and returns Ok or one of the
\* five error kinds.
C8_Total ==
    /\ [](NoRevisit /\ (~Done => ENABLED Next) /\ (Done => result \in Outcomes))
    /\ <>Done

C8_Witness ==
    /\ Done
    /\ Len(visited) = 4
    /\ result = Ok

\* C9: a Term or FieldName is blank exactly when its text is empty or all
\* whitespace, and validate(Term(t)) is BlankTerm exactly when t is blank,
\* Ok otherwise.
C9_BlankIffWhitespace ==
    /\ (Done /\ expr.tag = "Term") =>
          /\ blanks[<<>>] = AllWhitespace(expr.t)
          /\ result = IF AllWhitespace(expr.t) THEN Err("BlankTerm") ELSE Ok
    /\ (expr.tag = "Field" /\ <<>> \in DOMAIN blanks) =>
          blanks[<<>>] = AllWhitespace(expr.name)

C9_Witness ==
    /\ Done
    /\ expr = QTerm(<<" ", "a", "\t">>)
    /\ result = Ok

NodesOf(e) == {Preorder(e, <<>>)[i] : i \in 1..Len(Preorder(e, <<>>))}

\* C10: an error kind returned by validate names a rule that some node of
\* the tree violates, and BlankTerm is returned only for a blank Term node,
\* never for blank terms inside a Phrase or a Near.
C10_ErrorKindIsReal ==
    (Done /\ is_err(result)) =>
        /\ \E p \in NodesOf(expr) : LocalViolation(NodeAt(expr, p)) = result[2]
        /\ result[2] = "BlankTerm" =>
              \E p \in NodesOf(expr) :
                  NodeAt(expr, p).tag = "Term" /\ AllWhitespace(NodeAt(expr, p).t)

C10_Witness ==
    /\ Done
    /\ expr.tag = "And"
    /\ Len(expr.xs) = 2
    /\ expr.xs[1].tag = "Phrase"
    /\ \E i \in 1..Len(expr.xs[1].p.terms) : AllWhitespace(expr.xs[1].p.terms[i])
    /\ rets[<<1>>] = Ok
    /\ result = Err("BlankNear")

====
